---------------------------- MODULE Spec2Model ----------------------------
(***************************************************************************)
(* certificate_watcher.py: the service-descriptor parser (Service), the    *)
(* validation pipeline (validate_certificate) and the reporting loop       *)
(* (main).  Strings the code takes apart (host tokens, the host file) are  *)
(* sequences of one-character strings; strings it only builds or compares  *)
(* (messages) are TLA+ strings.  Durations are whole seconds.              *)
(***************************************************************************)
EXTENDS Integers, Sequences, FiniteSets, TLC

VARIABLES
    token,      \* Parse run: the description handed to Service()
    svc,        \* Parse run: what Service(token) gave
    ppc,        \* Parse run: "start" | "parsed"
    vin,        \* Validate run: the inputs of one validate_certificate call
    vres,       \* Validate run: its outcome
    vpc,        \* Validate run: "start" | "done"
    args,       \* main: the parsed command line
    hosts,      \* main: the host list
    idx,        \* main: index of the next host of the for loop
    out,        \* main: the lines written to stdout so far
    attempts,   \* main: the validate_certificate calls made, in order
    pc          \* main: "start" | "loop" | "done" | "crashed"

vars == <<token, svc, ppc, vin, vres, vpc, args, hosts, idx, out, attempts, pc>>
parseVars == <<token, svc, ppc>>
validateVars == <<vin, vres, vpc>>
mainVars == <<args, hosts, idx, out, attempts, pc>>

----------------------------------------------------------------------------
(* Bounds *)

MaxLen == 5        \* longest token of the Parse run
MaxDays == 2       \* largest number of days in a policy or a certificate
MaxPos == 1        \* most positional hosts of a main run
MaxFile == 2       \* most characters of the host file of a main run

----------------------------------------------------------------------------
(* Characters and strings *)

Chars == {"h", "0", "1", "-", " ", "@", ":"}
Seps == {"@", ":"}
Digits == {"0", "1"}
Spaces == {" "}

\* Python's None where a string is expected.
None == <<"None">>

SeqsUpTo(S, n) == UNION {[1..k -> S] : k \in 0..n}

DigitVal(c) == IF c = "1" THEN 1 ELSE 0

\* str.strip(): leading and trailing whitespace removed.
RECURSIVE LStrip(_)
LStrip(s) == IF s # <<>> /\ Head(s) \in Spaces THEN LStrip(Tail(s)) ELSE s

RECURSIVE RStrip(_)
RStrip(s) ==
    IF s # <<>> /\ s[Len(s)] \in Spaces THEN RStrip(SubSeq(s, 1, Len(s) - 1)) ELSE s

strip(s) == RStrip(LStrip(s))

\* The value of a non-empty run of decimal digits.
RECURSIVE DigitsVal(_)
DigitsVal(s) ==
    IF s = <<>> THEN 0
    ELSE 10 * DigitsVal(SubSeq(s, 1, Len(s) - 1)) + DigitVal(s[Len(s)])

IsDigits(s) == s # <<>> /\ \A i \in 1..Len(s) : s[i] \in Digits

\* int(text): surrounding whitespace is ignored, one optional sign, then
\* decimal digits; anything else raises ValueError.
Unsigned(s) == IF s # <<>> /\ Head(s) \in {"-", "+"} THEN Tail(s) ELSE s

IntOk(s) == IsDigits(Unsigned(strip(s)))

IntVal(s) ==
    LET t == strip(s)
    IN IF t # <<>> /\ Head(t) = "-" THEN 0 - DigitsVal(Tail(t))
       ELSE DigitsVal(Unsigned(t))

----------------------------------------------------------------------------
(* class Service *)

DefaultPort == 443

\* [^@:]+ matched greedily at position i: the index of its last character
\* (i - 1 when nothing matches).
RECURSIVE RunEnd(_, _)
RunEnd(t, i) ==
    IF i <= Len(t) /\ t[i] \notin Seps THEN RunEnd(t, i + 1) ELSE i - 1

\* One match of Service.SPEC at position i, alternatives tried in order:
\* [kind, last] or kind "none" when no alternative matches at i.
MatchAt(t, i) ==
    IF t[i] = "@" /\ RunEnd(t, i + 1) > i
        THEN [kind |-> "ip", last |-> RunEnd(t, i + 1)]
    ELSE IF t[i] = ":" /\ RunEnd(t, i + 1) > i
        THEN [kind |-> "port", last |-> RunEnd(t, i + 1)]
    ELSE IF RunEnd(t, i) >= i
        THEN [kind |-> "hostname", last |-> RunEnd(t, i)]
    ELSE [kind |-> "none", last |-> i]

\* ApplyMatch with the first port part kept instead of the last.
ApplyMatch_firstPortWins(s, kind, value) ==
    IF kind = "ip" THEN [s EXCEPT !.ip = Tail(value)]
    ELSE IF kind = "port" THEN
        IF ~IntOk(Tail(value)) THEN [s EXCEPT !.raised = TRUE]
        ELSE IF s.port = DefaultPort THEN [s EXCEPT !.port = IntVal(Tail(value))]
        ELSE s
    ELSE IF kind = "hostname" THEN [s EXCEPT !.hostname = value]
    ELSE s

\* ApplyMatch with the leading "@" left in the ip.
ApplyMatch_ipKeepsAt(s, kind, value) ==
    IF kind = "ip" THEN [s EXCEPT !.ip = value]
    ELSE IF kind = "port" THEN
        IF IntOk(Tail(value)) THEN [s EXCEPT !.port = IntVal(Tail(value))]
        ELSE [s EXCEPT !.raised = TRUE]
    ELSE IF kind = "hostname" THEN [s EXCEPT !.hostname = value]
    ELSE s

\* The body of the for loop over re.finditer, for one match.
ApplyMatch(s, kind, value) ==
    IF kind = "ip" THEN [s EXCEPT !.ip = Tail(value)]
    ELSE IF kind = "port" THEN
        IF IntOk(Tail(value)) THEN [s EXCEPT !.port = IntVal(Tail(value))]
        ELSE [s EXCEPT !.raised = TRUE]
    ELSE IF kind = "hostname" THEN [s EXCEPT !.hostname = value]
    ELSE s

\* re.finditer from position i on: non-overlapping matches left to right, a
\* position where nothing matches is skipped; a ValueError ends the scan.
RECURSIVE Scan(_, _, _)
Scan(t, i, s) ==
    IF i > Len(t) \/ s.raised THEN s
    ELSE LET m == MatchAt(t, i)
         IN Scan(t, m.last + 1, ApplyMatch(s, m.kind, SubSeq(t, i, m.last)))

\* Service(description).  raised = TRUE: the constructor raised ValueError
\* and no object exists.
Service(description) ==
    Scan(description, 1,
         [description |-> description, ip |-> None, port |-> DefaultPort,
          hostname |-> None, raised |-> FALSE])

NoService == [description |-> <<>>, ip |-> None, port |-> 0, hostname |-> None,
              raised |-> FALSE]

----------------------------------------------------------------------------
(* Parse run: Service applied to every token up to MaxLen *)

Tokens == SeqsUpTo(Chars, MaxLen)

InitIdleParse == token = <<>> /\ svc = NoService /\ ppc = "idle"
InitIdleValidate == vin = <<>> /\ vres = <<>> /\ vpc = "idle"
InitIdleMain ==
    /\ args = <<>> /\ hosts = <<>> /\ idx = 0
    /\ out = <<>> /\ attempts = <<>> /\ pc = "idle"

InitParse ==
    /\ token \in Tokens
    /\ svc = NoService
    /\ ppc = "start"
    /\ InitIdleValidate
    /\ InitIdleMain

Parse ==
    /\ ppc = "start"
    /\ svc' = Service(token)
    /\ ppc' = "parsed"
    /\ UNCHANGED <<token, validateVars, mainVars>>

NextParse == Parse

SpecParse == InitParse /\ [][NextParse]_vars

----------------------------------------------------------------------------
(* validate_certificate *)

SecondsPerDay == 86400
RevokedMarker == "OCSP Status: REVOKED"

\* Instants are seconds relative to the instant of the call: datetime.utcnow().
utcnow == 0

\* timedelta(days=n), in seconds.
timedelta(days) == days * SecondsPerDay

\* What the network can do to get_server_certificate.  A failure carries the
\* exception's class and its str(); a success carries the certificate.
NoCert == [notAfter |-> 0, notBefore |-> 0]
ErrMsgs == {"[Errno 111] Connection refused"}
FetchFailures ==
    {[kind |-> "timeout", msg |-> "timed out", cert |-> NoCert],
     [kind |-> "reset", msg |-> "[Errno 104] Connection reset by peer", cert |-> NoCert]}
    \cup {[kind |-> "other", msg |-> m, cert |-> NoCert] : m \in ErrMsgs}

\* get_server_certificate(service): the outcomes it can have.  With no
\* hostname wrap_socket(server_hostname=None) raises under check_hostname,
\* so the call cannot succeed.
get_server_certificate(service, certs) ==
    IF service.hostname = None THEN FetchFailures
    ELSE FetchFailures \cup {[kind |-> "ok", msg |-> "", cert |-> c] : c \in certs}

\* What ocspchecker.get_ocsp_status(service)[2] can do: give a status line or
\* raise (the call raises, or the list it returns has no third entry).
OcspOutcomes ==
    {[raises |-> FALSE, status |-> RevokedMarker],
     [raises |-> FALSE, status |-> "OCSP Status: GOOD"],
     [raises |-> TRUE, status |-> ""]}

\* The outcome of one call: raised = a CertificateValidationError with this
\* detail; crashed = another exception left the function; neither = it
\* returned.  kind names the raise statement; ocspCalls and compared count the
\* revocation lookups and the expiry/age comparisons the call made.
Outcome(raised, crashed, kind, detail, ocspCalls, compared) ==
    [raised |-> raised, crashed |-> crashed, kind |-> kind, detail |-> detail,
     ocspCalls |-> ocspCalls, compared |-> compared]

\* FetchError with every failure going through the catch-all handler.
FetchError_catchAll(f) ==
    Outcome(TRUE, FALSE, "NetworkError", f.msg, 0, 0)

\* The three except clauses around the fetch.
FetchError(f) ==
    IF f.kind = "timeout" THEN Outcome(TRUE, FALSE, "ConnectTimeout", "connect timeout", 0, 0)
    ELSE IF f.kind = "reset" THEN Outcome(TRUE, FALSE, "ConnectionReset", "Connection reset", 0, 0)
    ELSE Outcome(TRUE, FALSE, "NetworkError", f.msg, 0, 0)

\* WholeDays rounding toward zero.
WholeDays_truncate(seconds) ==
    IF seconds >= 0 THEN seconds \div SecondsPerDay
    ELSE 0 - ((0 - seconds) \div SecondsPerDay)

\* total_seconds() // 86400: floor division.
WholeDays(seconds) == seconds \div SecondsPerDay

\* The format specification :.0f applied to a whole number.
Format0f(n) == ToString(n)

ExpiresMessage(expire_in) ==
    "Certificate expires in " \o Format0f(WholeDays(expire_in)) \o " days"

TooOldMessage(certificate_age) ==
    "Certificate is too old (has been created "
        \o Format0f(WholeDays(certificate_age)) \o " days ago)"

\* PolicyChecks with <= and >= for the two comparisons.
PolicyChecks_nonStrict(expire_in, certificate_age, limitlow, limithigh, calls) ==
    IF expire_in <= limitlow
        THEN Outcome(TRUE, FALSE, "ExpiringSoon", ExpiresMessage(expire_in), calls, 1)
    ELSE IF certificate_age >= limithigh
        THEN Outcome(TRUE, FALSE, "TooOld", TooOldMessage(certificate_age), calls, 2)
    ELSE Outcome(FALSE, FALSE, "Ok", "", calls, 2)

\* The expiry check, then the age check.
PolicyChecks(expire_in, certificate_age, limitlow, limithigh, calls) ==
    IF expire_in < limitlow
        THEN Outcome(TRUE, FALSE, "ExpiringSoon", ExpiresMessage(expire_in), calls, 1)
    ELSE IF certificate_age > limithigh
        THEN Outcome(TRUE, FALSE, "TooOld", TooOldMessage(certificate_age), calls, 2)
    ELSE Outcome(FALSE, FALSE, "Ok", "", calls, 2)

\* AfterFetch with the revocation lookup made after the expiry and age checks.
AfterFetch_revocationLast(cert, limitlow, limithigh, check_ocsp, ocsp) ==
    LET expire_in == cert.notAfter - utcnow
        certificate_age == utcnow - cert.notBefore
        policy == PolicyChecks(expire_in, certificate_age, limitlow, limithigh, 0)
    IN IF policy.raised \/ check_ocsp = 0 THEN policy
       ELSE IF ocsp.raises THEN Outcome(FALSE, TRUE, "Crash", "", 1, 2)
       ELSE IF ocsp.status = RevokedMarker
           THEN Outcome(TRUE, FALSE, "Revoked", "OCSP Satus: REVOKED", 1, 2)
       ELSE [policy EXCEPT !.ocspCalls = 1]

\* The else branch of the try: the revocation lookup when check_ocsp is set
\* (and short-circuits it), then the policy checks.
AfterFetch(cert, limitlow, limithigh, check_ocsp, ocsp) ==
    LET expire_in == cert.notAfter - utcnow
        certificate_age == utcnow - cert.notBefore
    IN IF check_ocsp = 0
           THEN PolicyChecks(expire_in, certificate_age, limitlow, limithigh, 0)
       ELSE IF ocsp.raises THEN Outcome(FALSE, TRUE, "Crash", "", 1, 0)
       ELSE IF ocsp.status = RevokedMarker
           THEN Outcome(TRUE, FALSE, "Revoked", "OCSP Satus: REVOKED", 1, 0)
       ELSE PolicyChecks(expire_in, certificate_age, limitlow, limithigh, 1)

\* validate_certificate(service, limitlow, limithigh, check_ocsp) when the
\* fetch does `fetch` and the revocation checker, if asked, does `ocsp`.
validate_certificate(fetch, limitlow, limithigh, check_ocsp, ocsp) ==
    IF fetch.kind # "ok" THEN FetchError(fetch)
    ELSE AfterFetch(fetch.cert, limitlow, limithigh, check_ocsp, ocsp)

----------------------------------------------------------------------------
(* Validate run: one validate_certificate call on every input in the bounds *)

DayRange == (0 - (MaxDays + 1))..(MaxDays + 1)
Offsets == {d * SecondsPerDay + o : d \in DayRange, o \in {0, 1, SecondsPerDay - 1}}
Certs == [notAfter : Offsets, notBefore : {0 - x : x \in Offsets}]
Counts == 0..1

InitValidate ==
    /\ \E s \in {Service(<<"h">>), Service(<<"@", "1">>)} :
       \E low \in 0..MaxDays, high \in 0..MaxDays, o \in Counts :
       \E f \in get_server_certificate(s, Certs), r \in OcspOutcomes :
           vin = [service |-> s, low |-> low, high |-> high, ocsp |-> o,
                  fetch |-> f, ocspOut |-> r]
    /\ vres = Outcome(FALSE, FALSE, "", "", 0, 0)
    /\ vpc = "start"
    /\ InitIdleParse
    /\ InitIdleMain

Validate ==
    /\ vpc = "start"
    /\ vres' = validate_certificate(vin.fetch, timedelta(vin.low), timedelta(vin.high),
                                    vin.ocsp, vin.ocspOut)
    /\ vpc' = "done"
    /\ UNCHANGED <<vin, parseVars, mainVars>>

NextValidate == Validate

SpecValidate == InitValidate /\ [][NextValidate]_vars

----------------------------------------------------------------------------
(* main *)

\* str.split("\n")
RECURSIVE SplitFrom(_, _)
SplitFrom(s, cur) ==
    IF s = <<>> THEN <<cur>>
    ELSE IF Head(s) = "\n" THEN <<cur>> \o SplitFrom(Tail(s), <<>>)
    ELSE SplitFrom(Tail(s), Append(cur, Head(s)))

split(s) == SplitFrom(s, <<>>)

\* The generator handed to hosts.extend: the lines that are not empty and do
\* not start with "#", each stripped.
RECURSIVE KeptLines(_)
KeptLines(lines) ==
    IF lines = <<>> THEN <<>>
    ELSE LET host == Head(lines)
         IN IF host # <<>> /\ Head(host) # "#"
                THEN <<strip(host)>> \o KeptLines(Tail(lines))
                ELSE KeptLines(Tail(lines))

FileHosts(from_file) ==
    IF from_file = None THEN <<>> ELSE KeptLines(split(from_file))

\* ExtendHosts with the file's hosts put before the positional ones.
ExtendHosts_fileFirst(positional, from_file) == FileHosts(from_file) \o positional

\* hosts = args.hosts, extended by the file's hosts.
ExtendHosts(positional, from_file) == positional \o FileHosts(from_file)

\* One line of stdout: a csv row of two cells, or the print of the bell.
Row(delimiter, service, status) ==
    [kind |-> "row", delimiter |-> delimiter, service |-> service, status |-> status]
Bell == [kind |-> "print", delimiter |-> "", service |-> <<"BEL">>, status |-> ""]
HeaderRow == Row(";", <<"S", "e", "r", "v", "i", "c", "e">>, "Status")

Delimiter(a) == IF a.csv > 0 THEN ";" ELSE ":"

\* Report with the OK line written whether or not --verbose was given.
Report_alwaysOk(a, service, res) ==
    IF res.raised
        THEN <<Row(Delimiter(a), service.description, res.detail)>>
                 \o (IF a.csv = 0 /\ a.attention > 0 THEN <<Bell>> ELSE <<>>)
    ELSE <<Row(Delimiter(a), service.description, "OK")>>

\* The except and else branches of the loop body: what one host adds to
\* stdout.
Report(a, service, res) ==
    IF res.raised
        THEN <<Row(Delimiter(a), service.description, res.detail)>>
                 \o (IF a.csv = 0 /\ a.attention > 0 THEN <<Bell>> ELSE <<>>)
    ELSE IF a.verbose > 0 THEN <<Row(Delimiter(a), service.description, "OK")>>
    ELSE <<>>

PosTokens == {<<"h">>, <<"h", ":", "h">>}
FileChars == {"h", "#", " ", "\n"}
LowDays == 1
MainCerts == [notAfter : {0, timedelta(LowDays + 1)},
              notBefore : {0, 0 - timedelta(MaxDays + 1)}]

InitMain ==
    /\ \E positional \in SeqsUpTo(PosTokens, MaxPos) :
       \E from_file \in {None} \cup SeqsUpTo(FileChars, MaxFile) :
       \E verbose \in Counts, csv \in Counts, attention \in Counts, ocsp \in Counts :
           args = [hosts |-> positional, from_file |-> from_file, verbose |-> verbose,
                   csv |-> csv, attention |-> attention, ocsp |-> ocsp,
                   low |-> LowDays, high |-> MaxDays]
    /\ hosts = <<>>
    /\ idx = 0
    /\ out = <<>>
    /\ attempts = <<>>
    /\ pc = "start"
    /\ InitIdleParse
    /\ InitIdleValidate

\* main up to the loop: the header row in csv mode, the host file appended.
Start ==
    /\ pc = "start"
    /\ out' = IF args.csv > 0 THEN <<HeaderRow>> ELSE <<>>
    /\ hosts' = ExtendHosts(args.hosts, args.from_file)
    /\ idx' = 1
    /\ pc' = "loop"
    /\ UNCHANGED <<args, attempts, parseVars, validateVars>>

\* The loop fetches its next item from map(Service, hosts) and the
\* constructor raises: the exception leaves main.
NextServiceRaises ==
    /\ pc = "loop"
    /\ idx <= Len(hosts)
    /\ Service(hosts[idx]).raised
    /\ pc' = "crashed"
    /\ UNCHANGED <<args, hosts, idx, out, attempts, parseVars, validateVars>>

\* One iteration of the loop: the next Service, validate_certificate on it,
\* and its report.  An exception other than CertificateValidationError
\* leaves main.
Iterate ==
    /\ pc = "loop"
    /\ idx <= Len(hosts)
    /\ LET service == Service(hosts[idx])
       IN /\ ~service.raised
          /\ \E fetch \in get_server_certificate(service, MainCerts), ocsp \in OcspOutcomes :
                LET res == validate_certificate(fetch, timedelta(args.low),
                                                timedelta(args.high), args.ocsp, ocsp)
                IN /\ attempts' = Append(attempts, [host |-> idx, res |-> res])
                   /\ IF res.crashed
                          THEN pc' = "crashed" /\ UNCHANGED <<idx, out>>
                          ELSE /\ out' = out \o Report(args, service, res)
                               /\ idx' = idx + 1
                               /\ pc' = pc
    /\ UNCHANGED <<args, hosts, parseVars, validateVars>>

\* The loop is exhausted and main returns.
Finish ==
    /\ pc = "loop"
    /\ idx > Len(hosts)
    /\ pc' = "done"
    /\ UNCHANGED <<args, hosts, idx, out, attempts, parseVars, validateVars>>

Next == Start \/ NextServiceRaises \/ Iterate \/ Finish

Init == InitMain

Spec == Init /\ [][Next]_vars

----------------------------------------------------------------------------
(* Properties of the parser, under SpecParse *)

Parsed == ppc = "parsed"
Returned == Parsed /\ ~svc.raised

NoSep(s) == \A i \in 1..Len(s) : s[i] \notin Seps
HostPart(s) == s # <<>> /\ NoSep(s)
IpPart(s) == Len(s) >= 2 /\ s[1] = "@" /\ NoSep(Tail(s))
PortPart(s) == Len(s) >= 2 /\ s[1] = ":" /\ IsDigits(Tail(s))

\* The descriptor holds hostname h, the ip of part i and the port of part p.
Extracted(h, i, p) ==
    /\ ~svc.raised
    /\ svc.hostname = h
    /\ svc.ip = Tail(i)
    /\ svc.port = DigitsVal(Tail(p))

\* The ways of cutting the token into three non-empty pieces.
Cuts == {c \in (1..Len(token)) \X (1..Len(token)) : c[1] < c[2] /\ c[2] < Len(token)}
Piece(c, k) ==
    IF k = 1 THEN SubSeq(token, 1, c[1])
    ELSE IF k = 2 THEN SubSeq(token, c[1] + 1, c[2])
    ELSE SubSeq(token, c[2] + 1, Len(token))

\* The orders of the three parts: which piece is the hostname, the ip, the port.
Orders == {o \in [{"hostname", "ip", "port"} -> 1..3] :
              \A x, y \in DOMAIN o : x # y => o[x] # o[y]}
HostFirst == {o \in Orders : o["hostname"] = 1}

OrderHolds(o) ==
    \A c \in Cuts :
        (/\ HostPart(Piece(c, o["hostname"]))
         /\ IpPart(Piece(c, o["ip"]))
         /\ PortPart(Piece(c, o["port"])))
        => Extracted(Piece(c, o["hostname"]), Piece(c, o["ip"]), Piece(c, o["port"]))

\* C6 (as claimed): constructing a Service from any token raises no
\* exception.
C6_ParserNeverRaises == Parsed => ~svc.raised

\* C7 (as claimed): every descriptor the parser returns has a non-empty
\* hostname and a positive port.
C7_HostnameNonEmptyPortPositive ==
    Returned => /\ svc.hostname # None
                /\ Len(svc.hostname) > 0
                /\ svc.port > 0

\* The hostname the token denotes: its leading run free of "@" and ":",
\* None when the token is empty or starts with a separator.
LeadingRun ==
    IF token = <<>> \/ token[1] \in Seps THEN None
    ELSE LET k == CHOOSE k \in 1..Len(token) :
                     /\ NoSep(SubSeq(token, 1, k))
                     /\ (k = Len(token) \/ token[k + 1] \in Seps)
         IN SubSeq(token, 1, k)

\* Where port parts start: a ":" followed by a character other than "@", ":".
PortStarts == {i \in 1..(Len(token) - 1) : token[i] = ":" /\ token[i + 1] \notin Seps}

PortText(i) ==
    LET k == CHOOSE k \in (i + 1)..Len(token) :
                 /\ NoSep(SubSeq(token, i + 1, k))
                 /\ (k = Len(token) \/ token[k + 1] \in Seps)
    IN SubSeq(token, i + 1, k)

\* C7 (amended): every descriptor the parser returns has a hostname that is
\* absent (None) exactly when the token is empty or starts with "@" or ":",
\* and is otherwise the non-empty leading run of the token free of "@" and
\* ":"; its port is an integer, 443 when the token has no port part and
\* otherwise the value of the last port part, which may be zero or negative.
C7_HostnameLeadingRunPortLastPart ==
    Returned =>
        /\ svc.hostname = LeadingRun
        /\ svc.hostname # None => Len(svc.hostname) > 0 /\ NoSep(svc.hostname)
        /\ svc.port \in Int
        /\ IF PortStarts = {} THEN svc.port = DefaultPort
           ELSE LET last == CHOOSE i \in PortStarts : \A j \in PortStarts : j <= i
                IN svc.port = IntVal(PortText(last))

\* C7 witness: a descriptor returned with no hostname and a negative port.
C7_Witness == Returned /\ svc.hostname = None /\ svc.port < 0 /\ Len(token) > 0

\* C8 (as claimed): for each of the six orders of a hostname part, an "@ip"
\* part and a ":port" part, the parser extracts hostname, ip and port.
C8_AllSixOrders == Parsed => \A o \in Orders : OrderHolds(o)

\* C8 (amended): the parser extracts hostname, ip and port for the two
\* orders in which the hostname part comes first, host@ip:port and
\* host:port@ip.
C8_HostnameFirstOrders == Parsed => \A o \in HostFirst : OrderHolds(o)

\* C8 witness: a token host:port@ip, parsed into its three fields.
C8_Witness ==
    /\ Returned
    /\ \E c \in Cuts : /\ HostPart(Piece(c, 1)) /\ PortPart(Piece(c, 2)) /\ IpPart(Piece(c, 3))
                       /\ Extracted(Piece(c, 1), Piece(c, 3), Piece(c, 2))

----------------------------------------------------------------------------
(* Properties of validate_certificate, under SpecValidate *)

Validated == vpc = "done"
FetchOk == vin.fetch.kind = "ok"
ExpiresIn == vin.fetch.cert.notAfter - utcnow
Age == utcnow - vin.fetch.cert.notBefore
MinRemaining == vin.low * SecondsPerDay
MaxAge == vin.high * SecondsPerDay
PolicyKinds == {"Revoked", "ExpiringSoon", "TooOld"}

\* The revocation checker was asked and reported revoked.
ReportedRevoked ==
    vin.ocsp > 0 /\ ~vin.ocspOut.raises /\ vin.ocspOut.status = RevokedMarker
\* The revocation checker was not asked, or answered with another status.
NotReportedRevoked ==
    vin.ocsp = 0 \/ (~vin.ocspOut.raises /\ vin.ocspOut.status # RevokedMarker)

\* C2: when the fetch fails the call raises the failure of that fetch error
\* (timeout -> ConnectTimeout, reset -> ConnectionReset, anything else ->
\* NetworkError with the underlying message), never returns and never raises
\* a policy failure, and makes no revocation lookup and no comparison.
C2_FetchFailureShortCircuits ==
    (Validated /\ ~FetchOk) =>
        /\ vres.raised /\ ~vres.crashed
        /\ vres.kind \notin PolicyKinds \cup {"Ok"}
        /\ vin.fetch.kind = "timeout" =>
               vres.kind = "ConnectTimeout" /\ vres.detail = "connect timeout"
        /\ vin.fetch.kind = "reset" =>
               vres.kind = "ConnectionReset" /\ vres.detail = "Connection reset"
        /\ vin.fetch.kind = "other" =>
               vres.kind = "NetworkError" /\ vres.detail = vin.fetch.msg
        /\ vres.ocspCalls = 0
        /\ vres.compared = 0

\* C2 witness: a timed-out fetch with the revocation check switched on.
C2_Witness ==
    /\ Validated /\ vin.fetch.kind = "timeout" /\ vin.ocsp > 0
    /\ vres.kind = "ConnectTimeout"

\* C3: when the fetch succeeds, check_ocsp is set and the checker reports
\* revoked, the call raises the Revoked failure whatever expiresIn and age
\* are, and no expiry or age comparison was made before it.
C3_RevokedPrecedesPolicy ==
    (Validated /\ FetchOk /\ ReportedRevoked) =>
        /\ vres.raised /\ vres.kind = "Revoked"
        /\ vres.compared = 0
        /\ vres.ocspCalls = 1

\* C3 witness: revoked, while the expiry and the age check would both fail.
C3_Witness ==
    /\ Validated /\ FetchOk /\ ReportedRevoked
    /\ ExpiresIn < MinRemaining /\ Age > MaxAge
    /\ vres.kind = "Revoked"

\* C4: when the fetch succeeds and the certificate is not reported revoked,
\* the result is ExpiringSoon when expiresIn < minRemaining, TooOld when
\* expiresIn >= minRemaining and age > maxAge, Ok otherwise; both
\* comparisons are strict.
C4_PolicyTable ==
    (Validated /\ FetchOk /\ NotReportedRevoked) =>
        /\ ~vres.crashed
        /\ ExpiresIn < MinRemaining => vres.raised /\ vres.kind = "ExpiringSoon"
        /\ (ExpiresIn >= MinRemaining /\ Age > MaxAge) =>
               vres.raised /\ vres.kind = "TooOld"
        /\ (ExpiresIn >= MinRemaining /\ Age <= MaxAge) =>
               ~vres.raised /\ vres.kind = "Ok"

\* C4 witness: expiresIn = minRemaining and age = maxAge, result Ok.
C4_Witness ==
    /\ Validated /\ FetchOk /\ NotReportedRevoked
    /\ ExpiresIn = MinRemaining /\ Age = MaxAge /\ MinRemaining > 0
    /\ vres.kind = "Ok"

\* The floor of seconds / 86400, from its defining inequality.
FloorDays(seconds) ==
    CHOOSE n \in (0 - (MaxDays + 3))..(MaxDays + 3) :
        n * SecondsPerDay <= seconds /\ seconds < (n + 1) * SecondsPerDay

\* C5: the day count of the ExpiringSoon and of the TooOld message is the
\* floor of the duration in seconds over 86400, rounding toward negative
\* infinity (negative for a certificate that already expired).
C5_DayCountIsFloor ==
    Validated =>
        /\ vres.kind = "ExpiringSoon" =>
               vres.detail = "Certificate expires in " \o ToString(FloorDays(ExpiresIn))
                                 \o " days"
        /\ vres.kind = "TooOld" =>
               vres.detail = "Certificate is too old (has been created "
                                 \o ToString(FloorDays(Age)) \o " days ago)"

\* C5 witness: expired by less than one day, reported as -1 days.
C5_Witness ==
    /\ Validated /\ vres.kind = "ExpiringSoon"
    /\ ExpiresIn < 0 /\ ExpiresIn > 0 - SecondsPerDay
    /\ vres.detail = "Certificate expires in -1 days"

\* C10 (as claimed): the detail of a Revoked failure is the marker the
\* revocation status is compared against.
C10_RevokedDetailIsMarker ==
    (Validated /\ vres.kind = "Revoked") => vres.detail = RevokedMarker

----------------------------------------------------------------------------
(* Properties of main, under Spec *)

Done == pc = "done"

\* C1 (as claimed): no failure while parsing or validating a host aborts the
\* run: the loop never ends in an uncaught exception, so every later host is
\* still validated and main reaches its normal end.
C1_NoHostAbortsRun == pc # "crashed"

\* Each host was validated exactly once, in input order.
ValidatedOnceInOrder ==
    /\ Len(attempts) = Len(hosts)
    /\ \A i \in 1..Len(hosts) :
           Cardinality({k \in 1..Len(attempts) : attempts[k].host = i}) = 1
    /\ \A k \in 1..Len(attempts) : attempts[k].host = k

\* The host list is the positional hosts followed by the hosts of the file.
PositionalThenFile ==
    /\ Len(hosts) >= Len(args.hosts)
    /\ SubSeq(hosts, 1, Len(args.hosts)) = args.hosts
    /\ SubSeq(hosts, Len(args.hosts) + 1, Len(hosts)) = FileHosts(args.from_file)

\* The lines host i is to have in the report, given how its validation went.
HostLines(i) ==
    LET failed == attempts[i].res.raised
        status == IF failed THEN attempts[i].res.detail ELSE "OK"
        line == [kind |-> "row", delimiter |-> IF args.csv > 0 THEN ";" ELSE ":",
                 service |-> hosts[i], status |-> status]
    IN IF failed
           THEN IF args.csv = 0 /\ args.attention > 0 THEN <<line, Bell>> ELSE <<line>>
       ELSE IF args.verbose > 0 THEN <<line>>
       ELSE <<>>

RECURSIVE LinesFrom(_)
LinesFrom(i) == IF i > Len(hosts) THEN <<>> ELSE HostLines(i) \o LinesFrom(i + 1)

\* C9: when the run has processed its whole host list, every host was
\* validated exactly once, positional hosts before the hosts of the file,
\* and the report holds, in input order, one line per failing host (status =
\* the failure detail), one OK line per passing host when verbose is set and
\* no line for a passing host otherwise.  The only other lines are the header
\* row of csv mode and the attention signal after a failure line.
C9_OneLinePerHostInOrder ==
    Done =>
        /\ ValidatedOnceInOrder
        /\ PositionalThenFile
        /\ out = (IF args.csv > 0 THEN <<HeaderRow>> ELSE <<>>) \o LinesFrom(1)

\* C9 witness: a finished run over a positional host and a host of the file,
\* one failing and one passing.
C9_Witness ==
    /\ Done
    /\ Len(args.hosts) = 1 /\ Len(hosts) = 2
    /\ attempts[1].res.raised /\ ~attempts[2].res.raised
    /\ args.verbose = 0
    /\ Len(out) = 1

=============================================================================
